---- MODULE Spec2Model ----
(***************************************************************************)
(* Model of Lab02/brute_force_search.py: a coordinator (main,              *)
(* main_process) that cuts the keyspace charset^length into one chunk per  *)
(* worker process, and workers that enumerate their chunk with             *)
(* itertools.product, hash every candidate, and report matches and         *)
(* progress through two FIFO queues while polling a shared stop event.     *)
(*                                                                         *)
(* Atomicity: every action holds at most one access to shared state (a     *)
(* queue put or get, a read or write of the stop event), except where the  *)
(* accesses cannot be told apart from one: the coordinator is the only     *)
(* consumer of both queues, so empty() and the get() after it act as one;  *)
(* and the loop test of line 98 passes on the first true disjunct, while   *)
(* once no process is alive the queues no longer change.                   *)
(*                                                                         *)
(* Inputs: main hands main_process one of the four charsets of             *)
(* charset_option; main_process and worker take any string.  The explored  *)
(* inputs are the charset_option values whose keyspace fits the bounds     *)
(* (the ten digits at length 1) and shorter charsets, given to             *)
(* main_process with chunk_size computed as main computes it (line 190).   *)
(* Wall-clock time, the log file, the progress bars' rendering and the     *)
(* CSV output are not modelled; a result tuple keeps (hash, candidate).    *)
(***************************************************************************)
EXTENDS Integers, Sequences, FiniteSets, TLC

VARIABLES
    charset,          \* main_process argument: sequence of symbols
    length,           \* main_process argument: pre-image length
    num_workers,      \* main: the number typed by the user
    target_hashes,    \* set of target digests
    hash_algorithm,   \* name of the digest algorithm
    narrow_digest,    \* TRUE: the digest primitive has a one-value range
    chunk_size,       \* main, line 190
    chunks,           \* main_process, line 73: worker id -> <<start, end>>
    cpc,              \* coordinator's position (source line)
    launched,         \* number of processes started (lines 85-88)
    wpc,              \* worker id -> position or terminal state
    index,            \* worker id -> enumerate() index of line 36
    candidate_space,  \* worker id -> state of the itertools.product iterator
    candidate_tuple,  \* worker id -> the item the for of line 36 took last
    candidate,        \* worker id -> candidate of the current iteration
    result_queue,     \* FIFO of [hash, candidate]
    progress_queue,   \* FIFO of <<worker_id, progress, total>>
    stop_event,       \* mp.Event
    results,          \* main_process: list of consumed matches
    found_pre_images, \* main_process counter
    overall_n,        \* overall_pbar.n: sum of consumed progress values
    returned,         \* len(results) returned by main_process, or -1
    tested,           \* history: worker id -> candidates hashed
    emitted,          \* history: worker id -> sum of progress values put
    stop_block,       \* history: worker id -> tested \div poll interval when stop was first set
    set_calls         \* history: number of stop_event.set() calls

inputs == <<charset, length, num_workers, target_hashes, hash_algorithm,
            narrow_digest>>
coord == <<chunk_size, chunks, cpc, launched, results, found_pre_images,
           overall_n, returned>>
wvars == <<wpc, index, candidate_space, candidate_tuple, candidate>>
queues == <<result_queue, progress_queue>>
hist == <<tested, emitted, stop_block, set_calls>>
vars == <<inputs, coord, wvars, queues, stop_event, hist>>

(***************************************************************************)
(* Bounds of the explored inputs.                                          *)
(***************************************************************************)
MaxLength == 2
MaxWorkers == 2
MaxTotal == 10
MaxNarrowTotal == 2
MaxFairTotal == 3
LongLength == 14

(***************************************************************************)
(* Program constants.                                                      *)
(***************************************************************************)
stop_check_interval == 10000

SupportedAlgorithms == {"MD5", "SHA-1", "SHA-256"}

(***************************************************************************)
(* Pure helpers.                                                           *)
(***************************************************************************)
Min(a, b) == IF a <= b THEN a ELSE b
Max(a, b) == IF a >= b THEN a ELSE b

\* Python's a // b for b # 0 (floor division, also for a negative divisor).
FloorDiv(a, b) == IF b > 0 THEN a \div b ELSE -((a + (-b) - 1) \div (-b))

RECURSIVE Pow(_, _)
Pow(b, e) == IF e = 0 THEN 1 ELSE b * Pow(b, e - 1)

\* len(charset) ** length
total_combinations == Pow(Len(charset), length)

\* line 66; int(total * 0.01) is total \div 100 for the totals explored
batch_size == Min(Max(total_combinations \div 100, 100), 2000000)

\* line 69
progress_report_interval == Max(batch_size \div 20, 10000)

\* range(n)
Range(n) == 0 .. (n - 1)

\* line 73: the list comprehension, as a function of the worker id
ChunkList(n, size, total) ==
    [i \in Range(n) |-> <<i * size, Min((i + 1) * size, total)>>]

(***************************************************************************)
(* itertools.product(charset, repeat=length): the iterator's state is the  *)
(* tuple of positions (1-based into charset) it yields next, and whether   *)
(* it is exhausted.  The rightmost position advances fastest.              *)
(***************************************************************************)
ProductFirst(n, len) ==
    [pos |-> [k \in 1 .. len |-> 1], done |-> (n = 0 /\ len > 0)]

RECURSIVE Advance(_, _, _)
Advance(t, n, k) ==
    IF k = 0 THEN [pos |-> t, done |-> TRUE]
    ELSE IF t[k] < n THEN [pos |-> [t EXCEPT ![k] = t[k] + 1], done |-> FALSE]
    ELSE Advance([t EXCEPT ![k] = 1], n, k - 1)

\* variant: the leftmost position advances fastest
RECURSIVE AdvanceLeft(_, _, _)
AdvanceLeft(t, n, k) ==
    IF k > Len(t) THEN [pos |-> t, done |-> TRUE]
    ELSE IF t[k] < n THEN [pos |-> [t EXCEPT ![k] = t[k] + 1], done |-> FALSE]
    ELSE AdvanceLeft([t EXCEPT ![k] = 1], n, k + 1)

ProductNextLeftFirst(it, n) == AdvanceLeft(it.pos, n, 1)

\* the iterator after it has yielded it.pos
ProductNext(it, n) == Advance(it.pos, n, Len(it.pos))

\* lines 28-29: k calls of next(); raised = StopIteration escaped
RECURSIVE Skip(_, _, _)
Skip(it, n, k) ==
    IF k <= 0 THEN [it |-> it, raised |-> FALSE]
    ELSE IF it.done THEN [it |-> it, raised |-> TRUE]
    ELSE Skip(ProductNext(it, n), n, k - 1)

\* line 43: ''.join(candidate_tuple)
RECURSIVE Join(_, _)
Join(t, cs) == IF t = <<>> THEN "" ELSE cs[Head(t)] \o Join(Tail(t), cs)

(***************************************************************************)
(* hash_match, lines 9-20.  The digest primitive is a collaborator: the    *)
(* hex digest of s under algorithm a is the abstract string a:s, which is  *)
(* injective in (a, s); with narrow_digest every input has digest a:*.     *)
(***************************************************************************)
Digest(a, s, narrow) == IF narrow THEN a \o ":*" ELSE a \o ":" \o s

hash_match(cand, targets, a, narrow) ==
    IF a \in SupportedAlgorithms
    THEN [raised |-> FALSE,
          candidate_hash |-> Digest(a, cand, narrow),
          is_match |-> Digest(a, cand, narrow) \in targets]
    ELSE [raised |-> TRUE, candidate_hash |-> "", is_match |-> FALSE]

(***************************************************************************)
(* Inputs explored.                                                        *)
(***************************************************************************)
\* lines 164-169: the four charsets of charset_option
Digits ==
    <<"0", "1", "2", "3", "4", "5", "6", "7", "8", "9">>
DigitsUpper ==
    <<"0", "1", "2", "3", "4", "5", "6", "7", "8", "9", "A", "B", "C", "D",
      "E", "F", "G", "H", "I", "J", "K", "L", "M", "N", "O", "P", "Q", "R",
      "S", "T", "U", "V", "W", "X", "Y", "Z">>
DigitsLowerUpper ==
    <<"0", "1", "2", "3", "4", "5", "6", "7", "8", "9", "a", "b", "c", "d",
      "e", "f", "g", "h", "i", "j", "k", "l", "m", "n", "o", "p", "q", "r",
      "s", "t", "u", "v", "w", "x", "y", "z", "A", "B", "C", "D", "E", "F",
      "G", "H", "I", "J", "K", "L", "M", "N", "O", "P", "Q", "R", "S", "T",
      "U", "V", "W", "X", "Y", "Z">>
\* the last symbol of charset 4 is the grave accent, which a TLA+ string
\* cannot hold; the apostrophe, a single character that is no symbol of
\* the charset, stands for it, so that joined tuples stay distinct
DigitsLowerUpperSpecial ==
    <<"0", "1", "2", "3", "4", "5", "6", "7", "8", "9", "a", "b", "c", "d",
      "e", "f", "g", "h", "i", "j", "k", "l", "m", "n", "o", "p", "q", "r",
      "s", "t", "u", "v", "w", "x", "y", "z", "A", "B", "C", "D", "E", "F",
      "G", "H", "I", "J", "K", "L", "M", "N", "O", "P", "Q", "R", "S", "T",
      "U", "V", "W", "X", "Y", "Z", "!", "@", "#", "$", "%", "^", "&", "*",
      "(", ")", "-", "_", "=", "+", "[", "]", "{", "}", "|", ";", ":",
      "\"", ",", ".", "<", ">", "?", "/", "~", "'">>

\* lines 162-170: charset_options.get(charset_id, '0123456789')
charset_option(charset_id) ==
    IF charset_id = 2 THEN DigitsUpper
    ELSE IF charset_id = 3 THEN DigitsLowerUpper
    ELSE IF charset_id = 4 THEN DigitsLowerUpperSpecial
    ELSE Digits

\* the charset ids tried: the four known ones and an unknown one
CharsetIds == 0 .. 4

\* charsets shorter than any charset_option returns: main_process and
\* worker take any string as charset (line 58), and on these the chunking
\* cases (a remainder, more workers than candidates, several matches per
\* chunk) fit in a small keyspace
Binary == <<"0", "1">>
ShortCharsets == {<<"0">>, Binary, <<"0", "1", "2">>}

\* the charsets main hands to main_process (line 180) and the short ones
Charsets == ShortCharsets \cup {charset_option(id) : id \in CharsetIds}
Algorithms == {"MD5", "SHA-1", "SHA-256", "SHA-512"}

\* a digest no candidate of any explored keyspace has
Unmatched == "MD5:none"

\* all position tuples of the keyspace
Tuples(n, len) == [1 .. len -> 1 .. n]

\* the candidates of the keyspace
Keyspace(cs, len) == {Join(t, cs) : t \in Tuples(Len(cs), len)}

\* the first and the last candidate of the keyspace
FirstCandidate(cs, len) == Join([k \in 1 .. len |-> 1], cs)
LastCandidate(cs, len) == Join([k \in 1 .. len |-> Len(cs)], cs)

\* the algorithm whose digests a target file for algorithm a would list
TargetAlgorithm(a) == IF a \in SupportedAlgorithms THEN a ELSE "MD5"

TargetUniverse(cs, len, a, narrow) ==
    {Digest(TargetAlgorithm(a), FirstCandidate(cs, len), narrow),
     Digest(TargetAlgorithm(a), LastCandidate(cs, len), narrow),
     Unmatched}

\* every target set over the universe for MD5; one target for the others
TargetSets(cs, len, a, narrow) ==
    IF a = "MD5"
    THEN SUBSET TargetUniverse(cs, len, a, narrow)
    ELSE {{Digest(TargetAlgorithm(a), FirstCandidate(cs, len), narrow)}}

\* the state when main has read its inputs (line 186)
Start ==
    /\ chunk_size = 0
    /\ chunks = <<>>
    /\ cpc = "l190"
    /\ launched = 0
    /\ wpc = [w \in Range(num_workers) |-> "NotStarted"]
    /\ index = [w \in Range(num_workers) |-> 0]
    /\ candidate_space = [w \in Range(num_workers) |-> ProductFirst(0, 0)]
    /\ candidate_tuple = [w \in Range(num_workers) |-> <<>>]
    /\ candidate = [w \in Range(num_workers) |-> ""]
    /\ result_queue = <<>>
    /\ progress_queue = <<>>
    /\ stop_event = FALSE
    /\ results = <<>>
    /\ found_pre_images = 0
    /\ overall_n = 0
    /\ returned = -1
    /\ tested = [w \in Range(num_workers) |-> 0]
    /\ emitted = [w \in Range(num_workers) |-> 0]
    /\ stop_block = [w \in Range(num_workers) |-> -1]
    /\ set_calls = 0

Init ==
    /\ charset \in Charsets
    /\ length \in 1 .. MaxLength
    /\ total_combinations <= MaxTotal
    /\ num_workers \in 1 .. MaxWorkers
    /\ hash_algorithm \in Algorithms
    /\ narrow_digest \in IF hash_algorithm = "MD5" /\ total_combinations <= MaxNarrowTotal
                        THEN BOOLEAN ELSE {FALSE}
    /\ target_hashes \in TargetSets(charset, length, hash_algorithm, narrow_digest)
    /\ Start

\* the inputs of Init and the worker counts below 1: int(input(...)) of
\* line 186 accepts every integer
AnyCountInit ==
    /\ charset \in Charsets
    /\ length \in 1 .. MaxLength
    /\ total_combinations <= MaxTotal
    /\ num_workers \in -1 .. MaxWorkers
    /\ hash_algorithm \in Algorithms
    /\ narrow_digest \in IF hash_algorithm = "MD5" /\ total_combinations <= MaxNarrowTotal
                        THEN BOOLEAN ELSE {FALSE}
    /\ target_hashes \in TargetSets(charset, length, hash_algorithm, narrow_digest)
    /\ Start

\* a keyspace of four candidates that all have the one digest, which is a
\* target: every worker finds a match at every index of its chunk
CollidingInit ==
    /\ charset = Binary
    /\ length = 2
    /\ num_workers \in 1 .. MaxWorkers
    /\ hash_algorithm \in {"MD5", "SHA-512"}
    /\ narrow_digest = (hash_algorithm = "MD5")
    /\ target_hashes \in {{Digest("MD5", FirstCandidate(charset, length), TRUE)},
                          {Digest("MD5", FirstCandidate(charset, length), TRUE), Unmatched}}
    /\ Start

\* the inputs explored under fair scheduling: the smaller keyspaces, and
\* the charsets of charset_option with one worker
FairInit ==
    /\ Init
    /\ \/ total_combinations <= MaxFairTotal
       \/ num_workers = 1 /\ \E id \in CharsetIds : charset = charset_option(id)

\* one worker on a keyspace longer than the poll interval of the stop event
LongInit ==
    /\ charset = Binary
    /\ length = LongLength
    /\ num_workers = 1
    /\ hash_algorithm \in {"MD5", "SHA-512"}
    /\ narrow_digest = FALSE
    /\ target_hashes = {Digest("MD5", FirstCandidate(charset, length), FALSE)}
    /\ Start

(***************************************************************************)
(* Coordinator: main and main_process.                                     *)
(***************************************************************************)
\* variant: only a worker that ran its chunk out counts as ended
is_aliveUntilCompleted(w) == wpc[w] \notin {"NotStarted", "Completed"}

\* p.is_alive()
is_alive(w) == wpc[w] \notin {"NotStarted", "Completed", "Cancelled", "Crashed"}

\* variant: the loop only waits for the worker processes
LoopConditionAliveOnly == \E w \in Range(num_workers) : is_alive(w)

\* line 98: the condition of the aggregation loop
LoopCondition ==
    \/ \E w \in Range(num_workers) : is_alive(w)
    \/ result_queue # <<>>
    \/ progress_queue # <<>>

\* variant: the first match already counts as the target reached
TargetReachedAny(found, targets) == found >= 1

\* line 111
TargetReached(found, targets) == found >= Cardinality(targets)

\* variant: the call flips the flag instead of setting it
EventToggle(flag) == ~flag

\* line 112: the value of the event's flag after stop_event.set()
EventSet(flag) == TRUE

\* line 190: chunk_size = total_combinations // num_workers
Main ==
    /\ cpc = "l190"
    /\ IF num_workers = 0
       THEN /\ cpc' = "ZeroDivisionError"
            /\ UNCHANGED chunk_size
       ELSE /\ chunk_size' = FloorDiv(total_combinations, num_workers)
            /\ cpc' = "l73"
    /\ UNCHANGED <<inputs, chunks, launched, results, found_pre_images,
                   overall_n, returned, wvars, queues, stop_event, hist>>

\* lines 60-73: queues, stop event and chunks
MainProcessSetup ==
    /\ cpc = "l73"
    /\ chunks' = ChunkList(num_workers, chunk_size, total_combinations)
    /\ cpc' = "l85"
    /\ UNCHANGED <<inputs, chunk_size, launched, results, found_pre_images,
                   overall_n, returned, wvars, queues, stop_event, hist>>

\* lines 85-90: start the next worker process
Launch ==
    /\ cpc = "l85"
    /\ launched \in DOMAIN chunks
    /\ wpc' = [wpc EXCEPT ![launched] = "l24"]
    /\ launched' = launched + 1
    /\ UNCHANGED <<inputs, chunk_size, chunks, cpc, results, found_pre_images,
                   overall_n, returned, index, candidate_space, candidate_tuple,
                   candidate, queues, stop_event, hist>>

\* lines 92-96: every process is started
LaunchDone ==
    /\ cpc = "l85"
    /\ launched \notin DOMAIN chunks
    /\ cpc' = "l98"
    /\ UNCHANGED <<inputs, chunk_size, chunks, launched, results,
                   found_pre_images, overall_n, returned, wvars, queues,
                   stop_event, hist>>

\* line 98
LoopTest ==
    /\ cpc = "l98"
    /\ cpc' = IF LoopCondition THEN "l100" ELSE "l115"
    /\ UNCHANGED <<inputs, chunk_size, chunks, launched, results,
                   found_pre_images, overall_n, returned, wvars, queues,
                   stop_event, hist>>

\* lines 100-101: progress_queue.get returns an item
GetProgress ==
    /\ cpc = "l100"
    /\ progress_queue # <<>>
    /\ overall_n' = overall_n + Head(progress_queue)[2]
    /\ progress_queue' = Tail(progress_queue)
    /\ cpc' = "l105"
    /\ UNCHANGED <<inputs, chunk_size, chunks, launched, results,
                   found_pre_images, returned, wvars, result_queue,
                   stop_event, hist>>

\* lines 100-103: progress_queue.get times out, the exception is swallowed
GetTimeout ==
    /\ cpc = "l100"
    /\ progress_queue = <<>>
    /\ cpc' = "l105"
    /\ UNCHANGED <<inputs, chunk_size, chunks, launched, results,
                   found_pre_images, overall_n, returned, wvars, queues,
                   stop_event, hist>>

\* line 105: the result queue is empty, back to the outer loop
DrainEmpty ==
    /\ cpc = "l105"
    /\ result_queue = <<>>
    /\ cpc' = "l98"
    /\ UNCHANGED <<inputs, chunk_size, chunks, launched, results,
                   found_pre_images, overall_n, returned, wvars, queues,
                   stop_event, hist>>

\* lines 105-111: consume one match (the coordinator is the only consumer,
\* so the item empty() saw is the one get() returns) and compare the count
DrainResult ==
    /\ cpc = "l105"
    /\ result_queue # <<>>
    /\ results' = Append(results, Head(result_queue))
    /\ result_queue' = Tail(result_queue)
    /\ found_pre_images' = found_pre_images + 1
    /\ cpc' = IF TargetReached(found_pre_images + 1, target_hashes)
              THEN "l112" ELSE "l105"
    /\ UNCHANGED <<inputs, chunk_size, chunks, launched, overall_n, returned,
                   wvars, progress_queue, stop_event, hist>>

\* lines 112-113: stop_event.set() and the break out of the inner loop
SetStop ==
    /\ cpc = "l112"
    /\ stop_event' = EventSet(stop_event)
    /\ set_calls' = set_calls + 1
    /\ stop_block' = IF stop_event THEN stop_block
                      ELSE [w \in Range(num_workers) |->
                               tested[w] \div stop_check_interval]
    /\ cpc' = "l98"
    /\ UNCHANGED <<inputs, chunk_size, chunks, launched, results,
                   found_pre_images, overall_n, returned, wvars, queues,
                   tested, emitted>>

\* lines 115-116: p.join() returns for every process
JoinAll ==
    /\ cpc = "l115"
    /\ \A w \in Range(num_workers) : ~is_alive(w)
    /\ cpc' = "l137"
    /\ UNCHANGED <<inputs, chunk_size, chunks, launched, results,
                   found_pre_images, overall_n, returned, wvars, queues,
                   stop_event, hist>>

\* line 137: return len(results), total_elapsed_time
Return ==
    /\ cpc = "l137"
    /\ returned' = Len(results)
    /\ cpc' = "done"
    /\ UNCHANGED <<inputs, chunk_size, chunks, launched, results,
                   found_pre_images, overall_n, wvars, queues, stop_event,
                   hist>>

(***************************************************************************)
(* Worker process w: worker(), lines 22-56.                                *)
(***************************************************************************)
chunk_start(w) == chunks[w][1]
chunk_end(w) == chunks[w][2]

\* variant: the stop event is read at every index
PollDueAlways(i) == TRUE

\* variant: the stop event is read half as often
PollDueSlow(i) == i % (2 * stop_check_interval) = 0

\* line 38: the indices at which the stop event is read
PollDue(i) == i % stop_check_interval = 0

\* line 51
ReportDue(i) == i % progress_report_interval = 0

\* variant: the loop runs over candidate_space itself, without islice
HasItemUnsliced(w) == ~candidate_space[w].done

\* line 36: islice(candidate_space, chunk_end - chunk_start) yields an item
HasItem(w) ==
    /\ index[w] < chunk_end(w) - chunk_start(w)
    /\ ~candidate_space[w].done

\* the end of one iteration of the loop of line 36
NextIteration(w) ==
    /\ index' = [index EXCEPT ![w] = index[w] + 1]
    /\ wpc' = [wpc EXCEPT ![w] = "l36"]

\* lines 24-34: position the iterator at chunk_start
WorkerStart(w) ==
    /\ wpc[w] = "l24"
    /\ LET r == Skip(ProductFirst(Len(charset), length), Len(charset),
                     chunk_start(w))
       IN  /\ candidate_space' = [candidate_space EXCEPT ![w] = r.it]
           /\ wpc' = [wpc EXCEPT ![w] = IF r.raised THEN "Crashed" ELSE "l36"]
    /\ UNCHANGED <<inputs, coord, index, candidate_tuple, candidate, queues,
                   stop_event, hist>>

\* line 36: the chunk is exhausted, the loop ends (lines 54-56)
WorkerFinish(w) ==
    /\ wpc[w] = "l36"
    /\ ~HasItem(w)
    /\ wpc' = [wpc EXCEPT ![w] = "Completed"]
    /\ UNCHANGED <<inputs, coord, index, candidate_space, candidate_tuple,
                   candidate, queues, stop_event, hist>>

\* line 36: the for statement takes the next item out of the iterator
TakeItem(w) ==
    /\ candidate_tuple' = [candidate_tuple EXCEPT ![w] = candidate_space[w].pos]
    /\ candidate_space' = [candidate_space EXCEPT
                              ![w] = ProductNext(candidate_space[w], Len(charset))]

\* lines 36-41: the item of a poll index is taken, the stop event is read
\* and is set
WorkerStop(w) ==
    /\ wpc[w] = "l36"
    /\ HasItem(w)
    /\ PollDue(index[w])
    /\ stop_event
    /\ TakeItem(w)
    /\ wpc' = [wpc EXCEPT ![w] = "Cancelled"]
    /\ UNCHANGED <<inputs, coord, index, candidate, queues, stop_event, hist>>

\* lines 36-38: the item of a poll index is taken, the stop event is read
\* and is not set
WorkerPass(w) ==
    /\ wpc[w] = "l36"
    /\ HasItem(w)
    /\ PollDue(index[w])
    /\ ~stop_event
    /\ TakeItem(w)
    /\ wpc' = [wpc EXCEPT ![w] = "l43"]
    /\ UNCHANGED <<inputs, coord, index, candidate, queues, stop_event, hist>>

\* variant: without the break of line 41 a worker that has read the stop
\* event set goes on to line 43
AtCandidateAfterStop(w) ==
    \/ wpc[w] = "l43"
    \/ wpc[w] = "l36" /\ HasItem(w) /\ ~PollDue(index[w])
    \/ wpc[w] = "Cancelled"

\* the worker is about to execute line 43 for the item at index[w]
AtCandidate(w) ==
    \/ wpc[w] = "l43"
    \/ wpc[w] = "l36" /\ HasItem(w) /\ ~PollDue(index[w])

\* the item of this iteration: at an index that is no poll index the for
\* of line 36 takes it in the same step (line 38 short-circuits before the
\* stop event), otherwise it was taken when the event was read
Item(w) == IF wpc[w] = "l36" THEN candidate_space[w].pos ELSE candidate_tuple[w]

TakeItemIfDue(w) ==
    IF wpc[w] = "l36" THEN TakeItem(w)
    ELSE UNCHANGED <<candidate_space, candidate_tuple>>

\* lines 43-44 and 18: hash_match raises for an unsupported algorithm
WorkerRaise(w) ==
    /\ AtCandidate(w)
    /\ hash_match(Join(Item(w), charset), target_hashes,
                  hash_algorithm, narrow_digest).raised
    /\ wpc' = [wpc EXCEPT ![w] = "Crashed"]
    /\ candidate' = [candidate EXCEPT ![w] = Join(Item(w), charset)]
    /\ TakeItemIfDue(w)
    /\ UNCHANGED <<inputs, coord, index, queues, stop_event, hist>>

\* lines 43-46 and 51: hash the candidate of this iteration
WorkerTest(w) ==
    /\ AtCandidate(w)
    /\ LET c == Join(Item(w), charset)
           h == hash_match(c, target_hashes, hash_algorithm, narrow_digest)
       IN  /\ ~h.raised
           /\ candidate' = [candidate EXCEPT ![w] = c]
           /\ TakeItemIfDue(w)
           /\ tested' = [tested EXCEPT ![w] = tested[w] + 1]
           /\ IF h.is_match
              THEN /\ wpc' = [wpc EXCEPT ![w] = "l48"]
                   /\ UNCHANGED index
              ELSE IF ReportDue(index[w])
              THEN /\ wpc' = [wpc EXCEPT ![w] = "l52"]
                   /\ UNCHANGED index
              ELSE NextIteration(w)
    /\ UNCHANGED <<inputs, coord, queues, stop_event, emitted, stop_block,
                   set_calls>>

\* variant: the queue hands out its newest item first
QueuePutFront(q, item) == <<item>> \o q

\* Queue.put: manager.Queue() is first in, first out
QueuePut(q, item) == Append(q, item)

\* lines 47-48: result_queue.put of the match
PutResult(w) ==
    /\ wpc[w] = "l48"
    /\ result_queue' = QueuePut(result_queue,
           [hash |-> hash_match(candidate[w], target_hashes, hash_algorithm,
                                narrow_digest).candidate_hash,
            candidate |-> candidate[w]])
    /\ wpc' = [wpc EXCEPT ![w] = "l49"]
    /\ UNCHANGED <<inputs, coord, index, candidate_space, candidate_tuple,
                   candidate, progress_queue, stop_event, hist>>

\* line 49: progress_queue.put of one unit for the match
PutMatchProgress(w) ==
    /\ wpc[w] = "l49"
    /\ progress_queue' = QueuePut(progress_queue,
           <<w, 1, chunk_end(w) - chunk_start(w)>>)
    /\ emitted' = [emitted EXCEPT ![w] = emitted[w] + 1]
    /\ IF ReportDue(index[w])
       THEN /\ wpc' = [wpc EXCEPT ![w] = "l52"]
            /\ UNCHANGED index
       ELSE NextIteration(w)
    /\ UNCHANGED <<inputs, coord, candidate_space, candidate_tuple, candidate,
                   result_queue, stop_event, tested, stop_block, set_calls>>

\* lines 51-52: the periodic progress report
PutProgress(w) ==
    /\ wpc[w] = "l52"
    /\ progress_queue' = QueuePut(progress_queue,
           <<w, progress_report_interval, chunk_end(w) - chunk_start(w)>>)
    /\ emitted' = [emitted EXCEPT ![w] = emitted[w] + progress_report_interval]
    /\ NextIteration(w)
    /\ UNCHANGED <<inputs, coord, candidate_space, candidate_tuple, candidate,
                   result_queue, stop_event, tested, stop_block, set_calls>>

Next ==
    \/ Main
    \/ MainProcessSetup
    \/ Launch
    \/ LaunchDone
    \/ LoopTest
    \/ GetProgress
    \/ GetTimeout
    \/ DrainEmpty
    \/ DrainResult
    \/ SetStop
    \/ JoinAll
    \/ Return
    \/ \E w \in Range(num_workers) : WorkerStart(w)
    \/ \E w \in Range(num_workers) : WorkerFinish(w)
    \/ \E w \in Range(num_workers) : WorkerStop(w)
    \/ \E w \in Range(num_workers) : WorkerPass(w)
    \/ \E w \in Range(num_workers) : WorkerRaise(w)
    \/ \E w \in Range(num_workers) : WorkerTest(w)
    \/ \E w \in Range(num_workers) : PutResult(w)
    \/ \E w \in Range(num_workers) : PutMatchProgress(w)
    \/ \E w \in Range(num_workers) : PutProgress(w)

Spec == Init /\ [][Next]_vars

LongSpec == LongInit /\ [][Next]_vars

AnyCountSpec == AnyCountInit /\ [][Next]_vars

CollidingSpec == CollidingInit /\ [][Next]_vars

(***************************************************************************)
(* Scheduling: the coordinator and every worker are operating-system       *)
(* processes of their own, so each of them keeps taking steps while it     *)
(* has one to take.                                                        *)
(***************************************************************************)
CoordinatorStep ==
    \/ Main
    \/ MainProcessSetup
    \/ Launch
    \/ LaunchDone
    \/ LoopTest
    \/ GetProgress
    \/ GetTimeout
    \/ DrainEmpty
    \/ DrainResult
    \/ SetStop
    \/ JoinAll
    \/ Return

WorkerStep(w) ==
    /\ w \in Range(num_workers)
    /\ \/ WorkerStart(w)
       \/ WorkerFinish(w)
       \/ WorkerStop(w)
       \/ WorkerPass(w)
       \/ WorkerRaise(w)
       \/ WorkerTest(w)
       \/ PutResult(w)
       \/ PutMatchProgress(w)
       \/ PutProgress(w)

Fairness ==
    /\ WF_vars(CoordinatorStep)
    /\ \A w \in Range(MaxWorkers) : WF_vars(WorkerStep(w))

FairSpec == FairInit /\ [][Next]_vars /\ Fairness

(***************************************************************************)
(* Vocabulary of the properties.                                           *)
(***************************************************************************)
Workers == Range(num_workers)
ChunksAssigned == cpc \notin {"l190", "l73", "ZeroDivisionError"}
Terminal(w) == wpc[w] \in {"Completed", "Cancelled", "Crashed"}

\* the index range [start, end) of worker w's chunk
ChunkIndices(w) == chunk_start(w) .. (chunk_end(w) - 1)

\* the candidate of a global index: its base-|charset| digits, most
\* significant first, mapped through charset
CandidateAt(i) ==
    Join([k \in 1 .. length |->
             ((i \div Pow(Len(charset), length - k)) % Len(charset)) + 1],
         charset)

\* the digest the configured algorithm gives a candidate
DigestOf(s) == Digest(hash_algorithm, s, narrow_digest)

\* the candidates of the keyspace whose digest is d
Preimages(d) == {s \in Keyspace(charset, length) : DigestOf(s) = d}

\* the digests of the consumed matches
MatchedDigests == {results[i].hash : i \in 1 .. Len(results)}

(***************************************************************************)
(* C1.  For every total >= 1 and every num_workers >= 1 the chunks handed  *)
(* to the workers partition [0, total) exactly: the first starts at 0,     *)
(* each starts where its predecessor ends, no two overlap, their union is  *)
(* the whole range, and the last one ends at total (it absorbs the         *)
(* remainder of the integer division).                                     *)
(***************************************************************************)
ChunksPartition ==
    (ChunksAssigned /\ num_workers >= 1 /\ total_combinations >= 1) =>
        /\ chunk_start(0) = 0
        /\ \A w \in Workers : chunk_start(w) <= chunk_end(w)
        /\ \A w \in Workers \ {0} : chunk_start(w) = chunk_end(w - 1)
        /\ \A v, w \in Workers : v # w => ChunkIndices(v) \cap ChunkIndices(w) = {}
        /\ UNION {ChunkIndices(w) : w \in Workers} = 0 .. (total_combinations - 1)
        /\ chunk_end(num_workers - 1) = total_combinations

(***************************************************************************)
(* C2.  End-to-end completeness: when every target digest has at most one  *)
(* pre-image in the keyspace and the search returns with no worker         *)
(* crashed, the result list holds exactly one tuple for every target       *)
(* digest that has a pre-image in the keyspace, and the returned count is  *)
(* the number of such digests.                                             *)
(***************************************************************************)
UniquePreimages == \A d \in target_hashes : Cardinality(Preimages(d)) <= 1

FindableTargets == {d \in target_hashes : Preimages(d) # {}}

Completeness ==
    (cpc = "done" /\ UniquePreimages /\ \A w \in Workers : wpc[w] # "Crashed") =>
        /\ \A d \in FindableTargets :
              Cardinality({i \in 1 .. Len(results) : results[i].hash = d}) = 1
        /\ \A i \in 1 .. Len(results) : results[i].hash \in FindableTargets
        /\ returned = Cardinality(FindableTargets)

(***************************************************************************)
(* C3.  Early-exit trigger: the stop event is never set while              *)
(* found_pre_images < |target_hashes|, and whenever found_pre_images >=    *)
(* |target_hashes| holds in the aggregation loop the coordinator sets it;  *)
(* so when the loop has been left with found_pre_images >=                 *)
(* |target_hashes|, the event is set.  Any target set, the empty one       *)
(* included.                                                               *)
(***************************************************************************)
EarlyExitTrigger ==
    /\ stop_event => found_pre_images >= Cardinality(target_hashes)
    /\ (cpc \in {"l115", "l137", "done"}
            /\ found_pre_images >= Cardinality(target_hashes)) => stop_event

(***************************************************************************)
(* C4.  Bounded overshoot: once the stop event is set, a worker hashes at  *)
(* most stop_check_interval further candidates.  The worker had hashed at  *)
(* least stop_block * stop_check_interval candidates when the event was    *)
(* first set, and never gets beyond the end of that poll block: at most    *)
(* stop_check_interval candidates lie between the two.                     *)
(***************************************************************************)
BoundedOvershoot ==
    stop_event =>
        \A w \in Workers :
            /\ stop_block[w] >= 0
            /\ tested[w] <= (stop_block[w] + 1) * stop_check_interval

\* a worker that ran on for a whole poll block's rest and was then cancelled
OvershootWitness ==
    /\ stop_event
    /\ wpc[0] = "Cancelled"
    /\ stop_block[0] = 0
    /\ tested[0] = stop_check_interval

(***************************************************************************)
(* C5.  No double-count: found_pre_images counts distinct digests, so two  *)
(* candidates with the same target digest raise it by one only, and the    *)
(* stop event is set only once every target digest has been matched.       *)
(***************************************************************************)
NoDoubleCount ==
    /\ found_pre_images = Cardinality(MatchedDigests)
    /\ stop_event => target_hashes \subseteq MatchedDigests

(***************************************************************************)
(* C6.  Termination: under fair scheduling of the coordinator and the      *)
(* workers every search ends: every worker is terminal, both queues are    *)
(* empty and the coordinator has returned its result.                      *)
(***************************************************************************)
Finished ==
    /\ cpc = "done"
    /\ returned = Len(results)
    /\ \A w \in Workers : Terminal(w)
    /\ result_queue = <<>>
    /\ progress_queue = <<>>

Termination == <>[]Finished

\* a finished search in which one target was found and another was not
TerminationWitness ==
    /\ Finished
    /\ returned = 1
    /\ Cardinality(target_hashes) = 2
    /\ \E w \in Workers : wpc[w] = "Completed" /\ tested[w] > 0

(***************************************************************************)
(* C7.  Exhaustion without early exit: with a collision-free digest and a  *)
(* target digest that has no pre-image in the keyspace, the stop event is  *)
(* never set, no worker is cancelled, and a worker that completes has      *)
(* hashed every index of its chunk, up to the candidate of its last index. *)
(***************************************************************************)
ExhaustionWithoutEarlyExit ==
    (ChunksAssigned /\ UniquePreimages /\ FindableTargets # target_hashes) =>
        /\ ~stop_event
        /\ \A w \in Workers :
              /\ wpc[w] # "Cancelled"
              /\ wpc[w] = "Completed" =>
                    /\ tested[w] = chunk_end(w) - chunk_start(w)
                    /\ tested[w] > 0 => candidate[w] = CandidateAt(chunk_end(w) - 1)

\* a search that found one target, lacks another, and ran every chunk out
ExhaustionWitness ==
    /\ cpc = "done"
    /\ UniquePreimages
    /\ FindableTargets # target_hashes
    /\ found_pre_images = 1
    /\ \A w \in Workers : wpc[w] = "Completed" /\ tested[w] > 0

(***************************************************************************)
(* C8.  Worker failure is fatal and visible: a search in which a worker    *)
(* crashed never ends with the normal return of a result.                  *)
(***************************************************************************)
WorkerFailureVisible ==
    cpc = "done" => \A w \in Workers : wpc[w] # "Crashed"

(***************************************************************************)
(* C9.  The stop event is write-once.  As claimed: it is set exactly once  *)
(* per search.  Stated for the searches that end regularly: no worker      *)
(* crashed, the target set is not empty, digests do not collide and the    *)
(* chunks cover the keyspace.                                              *)
(***************************************************************************)
RegularSearch ==
    /\ cpc = "done"
    /\ \A w \in Workers : wpc[w] # "Crashed"
    /\ target_hashes # {}
    /\ UniquePreimages
    /\ UNION {ChunkIndices(w) : w \in Workers} = 0 .. (total_combinations - 1)

SetExactlyOnce == RegularSearch => set_calls = 1

(***************************************************************************)
(* C9, amended.  The stop event starts unset; it changes only in the       *)
(* coordinator's step of line 112, taken when the match it has just        *)
(* consumed reached the target count, in which no worker moves and no      *)
(* queue changes; stop_event.set() is only called there; and once set the  *)
(* event stays set.  It is set at most once, and not at all when fewer     *)
(* matches than targets are consumed.                                      *)
(***************************************************************************)
WriteOnce ==
    /\ ~stop_event
    /\ [][/\ stop_event => stop_event'
          /\ (stop_event' # stop_event \/ set_calls' # set_calls) =>
                /\ cpc = "l112"
                /\ stop_event'
                /\ set_calls' = set_calls + 1
                /\ TargetReached(found_pre_images, target_hashes)
                /\ found_pre_images >= 1
                /\ found_pre_images' = found_pre_images
                /\ results' = results
                /\ queues' = queues
                /\ wvars' = wvars]_vars

\* set() was called a second time and the event is still set at the return
WriteOnceWitness == cpc = "done" /\ stop_event /\ set_calls = 2

(***************************************************************************)
(* C10.  Progress accounting: the progress values a worker has put never   *)
(* add up to more than the candidates it has hashed, and the               *)
(* coordinator's accumulated count never exceeds total_combinations.       *)
(***************************************************************************)
ProgressAccounting ==
    /\ \A w \in Workers : emitted[w] <= tested[w]
    /\ overall_n <= total_combinations

\* the matches put on the result queue so far, in the order of the puts:
\* those consumed followed by those still buffered
Delivered == results \o result_queue

\* the global indices worker w has hashed so far
TestedIndices(w) == chunk_start(w) .. (chunk_start(w) + tested[w] - 1)

\* the candidates worker w has hashed whose digest is in the target set
MatchingTested(w) ==
    {CandidateAt(g) : g \in {i \in TestedIndices(w) : DigestOf(CandidateAt(i)) \in target_hashes}}

\* the matching candidates hashed by any worker
AllMatchingTested ==
    IF ChunksAssigned THEN UNION {MatchingTested(w) : w \in Workers} ELSE {}

\* the matches a worker has found and is about to put (line 48)
PendingMatches == {candidate[w] : w \in {v \in Workers : wpc[v] = "l48"}}

(***************************************************************************)
(* C11.  Match delivery: a worker puts exactly one match on the result     *)
(* queue for each candidate it has hashed whose digest is in the target    *)
(* set, with that candidate's digest; no match is put twice; and when the  *)
(* coordinator returns, no match is left in the queue, every match put is  *)
(* in the result list exactly once, and the count returned is the number   *)
(* of matches put.                                                         *)
(***************************************************************************)
MatchDelivery ==
    /\ {Delivered[k].candidate : k \in 1 .. Len(Delivered)}
          = AllMatchingTested \ PendingMatches
    /\ Len(Delivered) = Cardinality(AllMatchingTested \ PendingMatches)
    /\ \A k \in 1 .. Len(Delivered) :
          /\ Delivered[k].hash = DigestOf(Delivered[k].candidate)
          /\ Delivered[k].hash \in target_hashes
    /\ cpc = "done" =>
          /\ result_queue = <<>>
          /\ PendingMatches = {}
          /\ returned = Len(results)
          /\ returned = Cardinality(AllMatchingTested)

\* the coordinator has returned two matches put by two different workers
MatchDeliveryWitness ==
    /\ cpc = "done"
    /\ returned = 2
    /\ \E w \in Workers : Cardinality(MatchingTested(w)) = 1

(***************************************************************************)
(* C12.  A worker count below 1 (zero or negative) is rejected before any  *)
(* work starts: no worker is launched, no candidate is hashed, and the     *)
(* search does not return a normal result.                                 *)
(***************************************************************************)
WorkerCountRejected ==
    num_workers < 1 =>
        /\ launched = 0
        /\ cpc # "done"
        /\ returned = -1

(***************************************************************************)
(* C13.  A hash algorithm other than MD5, SHA-1 and SHA-256 is rejected    *)
(* when the configuration is loaded, not per candidate: no worker is       *)
(* launched, no candidate reaches hash_match, and the search does not      *)
(* return a normal result.                                                 *)
(***************************************************************************)
UnsupportedAlgorithmRejected ==
    hash_algorithm \notin SupportedAlgorithms =>
        /\ launched = 0
        /\ \A w \in Workers : wpc[w] = "NotStarted" /\ candidate[w] = ""
        /\ cpc # "done"
        /\ returned = -1

\* the candidate the worker's loop joins at global index i: product() of
\* line 27 advanced i times (lines 28-29 and 36), joined at line 43
CandidateOfProduct(i) ==
    Join(Skip(ProductFirst(Len(charset), length), Len(charset), i).it.pos, charset)

\* the global index of the item worker w's loop is at
CurrentIndex(w) == chunk_start(w) + index[w]

(***************************************************************************)
(* C14.  Index-to-candidate mapping: the candidate a worker handles at     *)
(* step k of a chunk starting at s is the length-digit base-|charset|      *)
(* expansion of s + k, most significant digit first, mapped through the    *)
(* charset, for every worker and every chunk; and over [0, total) the      *)
(* mapping is one-to-one and onto the strings of that length (a property   *)
(* of the inputs alone, evaluated once per input, when main starts).       *)
(***************************************************************************)
IndexMapping ==
    /\ ChunksAssigned =>
          \A w \in Workers :
             /\ (wpc[w] = "l36" /\ HasItem(w)) =>
                   Join(candidate_space[w].pos, charset) = CandidateAt(CurrentIndex(w))
             /\ wpc[w] \in {"l43", "l48", "l49", "l52", "Cancelled"} =>
                   Join(candidate_tuple[w], charset) = CandidateAt(CurrentIndex(w))
             /\ wpc[w] \in {"l48", "l49", "l52"} =>
                   candidate[w] = CandidateAt(CurrentIndex(w))
             /\ (wpc[w] = "Crashed" /\ candidate[w] # "") =>
                   candidate[w] = CandidateAt(CurrentIndex(w))
             /\ (wpc[w] \in {"l36", "Completed", "Cancelled"} /\ index[w] > 0) =>
                   candidate[w] = CandidateAt(CurrentIndex(w) - 1)
    /\ cpc = "l190" =>
          /\ \A i \in Range(total_combinations) :
                /\ CandidateOfProduct(i) = CandidateAt(i)
                /\ \A j \in Range(total_combinations) :
                      CandidateOfProduct(i) = CandidateOfProduct(j) => i = j
          /\ {CandidateOfProduct(i) : i \in Range(total_combinations)}
                = Keyspace(charset, length)

\* a worker whose chunk does not start at 0 has hashed a candidate of two
\* symbols at a step after the first one, and it matched
IndexMappingWitness ==
    /\ ChunksAssigned
    /\ length = 2
    /\ \E w \in Workers :
          chunk_start(w) > 0 /\ index[w] > 0 /\ wpc[w] = "l48"

\* worker w's chunk is empty: start == end
EmptyChunk(w) == chunk_start(w) = chunk_end(w)

(***************************************************************************)
(* C15.  With more workers than candidates there are still num_workers     *)
(* chunks, and a worker whose chunk is empty is a no-op: it hashes no      *)
(* candidate, puts no match and no progress report, raises no error, and   *)
(* the only step its loop can take is the one that ends it as Completed.   *)
(***************************************************************************)
EmptyChunkNoOp ==
    ChunksAssigned =>
        /\ num_workers > total_combinations =>
              /\ DOMAIN chunks = Range(num_workers)
              /\ \E w \in Workers : EmptyChunk(w)
        /\ \A w \in Workers :
              EmptyChunk(w) =>
                 /\ tested[w] = 0
                 /\ emitted[w] = 0
                 /\ candidate[w] = ""
                 /\ \A k \in 1 .. Len(progress_queue) : progress_queue[k][1] # w
                 /\ wpc[w] \in {"NotStarted", "l24", "l36", "Completed"}
                 /\ wpc[w] = "l36" => ~HasItem(w)

\* more workers than candidates: the search has returned and a worker with
\* an empty chunk has ended as Completed
EmptyChunkWitness ==
    /\ cpc = "done"
    /\ num_workers > total_combinations
    /\ \E w \in Workers : EmptyChunk(w) /\ wpc[w] = "Completed"

\* the candidates of worker w's chunk
ChunkCandidates(w) == {CandidateAt(i) : i \in ChunkIndices(w)}

\* this step puts an item on the result queue, on the progress queue
ResultPut == Len(result_queue') > Len(result_queue)
ProgressPut == Len(progress_queue') > Len(progress_queue)

(***************************************************************************)
(* C16.  Worker lifecycle: a worker that has run its chunk out or has      *)
(* read the stop event set at a poll index is terminal; from then on it    *)
(* takes no step, hashes no candidate and puts nothing on either queue.    *)
(* A worker becomes Cancelled only from the head of its loop, at a poll    *)
(* index, with the event set, and the candidate at that index is not       *)
(* hashed: the loop has taken that item out of the iterator, but it is     *)
(* never joined or hashed, and the worker has hashed exactly the           *)
(* candidates before that index.                                           *)
(***************************************************************************)
TerminalIsFinal ==
    [][\A w \in Workers :
          /\ Terminal(w) =>
                /\ wpc'[w] = wpc[w]
                /\ index'[w] = index[w]
                /\ candidate'[w] = candidate[w]
                /\ candidate_space'[w] = candidate_space[w]
                /\ candidate_tuple'[w] = candidate_tuple[w]
                /\ tested'[w] = tested[w]
                /\ emitted'[w] = emitted[w]
                /\ ResultPut =>
                      result_queue'[Len(result_queue')].candidate \notin ChunkCandidates(w)
                /\ ProgressPut =>
                      progress_queue'[Len(progress_queue')][1] # w
          /\ (wpc'[w] = "Cancelled" /\ wpc[w] # "Cancelled") =>
                /\ wpc[w] = "l36"
                /\ stop_event
                /\ PollDue(index[w])
                /\ HasItem(w)
                /\ tested[w] = index[w]
                /\ tested'[w] = tested[w]
                /\ emitted'[w] = emitted[w]
                /\ candidate'[w] = candidate[w]
                /\ index'[w] = index[w]
                /\ candidate_tuple'[w] = candidate_space[w].pos
                /\ Join(candidate_tuple'[w], charset) = CandidateAt(CurrentIndex(w))
                /\ candidate[w] # CandidateAt(CurrentIndex(w))
                /\ queues' = queues
          /\ (wpc'[w] = "Completed" /\ wpc[w] # "Completed") =>
                /\ wpc[w] = "l36"
                /\ ~HasItem(w)
                /\ tested[w] = chunk_end(w) - chunk_start(w)]_vars

\* a worker was cancelled at a poll index after the first one, and the
\* coordinator has consumed the match and returned
TerminalIsFinalWitness ==
    /\ cpc = "done"
    /\ \E w \in Workers :
          /\ wpc[w] = "Cancelled"
          /\ index[w] = stop_check_interval
          /\ tested[w] = stop_check_interval

\* the global index of a candidate, and the worker whose chunk holds it
IndexOf(c) == CHOOSE i \in Range(total_combinations) : CandidateAt(i) = c
SameWorker(c, d) ==
    \E w \in Workers : IndexOf(c) \in ChunkIndices(w) /\ IndexOf(d) \in ChunkIndices(w)

(***************************************************************************)
(* C17.  Per-worker ordering: of two matches found by one worker, the one  *)
(* at the lower index is put first, stays ahead of the other in the result *)
(* queue, and comes earlier in the result list, also in the list the       *)
(* coordinator returns, however the steps of the other workers and of the  *)
(* coordinator interleave.                                                 *)
(***************************************************************************)
PerWorkerOrder ==
    ChunksAssigned =>
        \A a \in 1 .. Len(Delivered) : \A b \in 1 .. Len(Delivered) :
            (a < b /\ SameWorker(Delivered[a].candidate, Delivered[b].candidate)) =>
                IndexOf(Delivered[a].candidate) < IndexOf(Delivered[b].candidate)

\* the coordinator has returned four matches, two of each of two workers,
\* and a match of the second worker came before one of the first
PerWorkerOrderWitness ==
    /\ cpc = "done"
    /\ num_workers = 2
    /\ returned = 4
    /\ \E a \in 1 .. 4 : \E b \in 1 .. 4 :
          /\ a < b
          /\ IndexOf(results[a].candidate) \in ChunkIndices(1)
          /\ IndexOf(results[b].candidate) \in ChunkIndices(0)

\* the number of candidates of worker w's chunk
ChunkLength(w) == chunk_end(w) - chunk_start(w)

\* worker w has a chunk of at most one poll interval and has hashed its
\* first candidate
PastFirstOfShortChunk(w) ==
    /\ w \in Workers
    /\ ChunksAssigned
    /\ ChunkLength(w) <= stop_check_interval
    /\ tested[w] >= 1

\* a worker past the first candidate of a short chunk is never cancelled
\* and never fails, is terminal only with its whole chunk hashed, and at
\* the head of its loop goes on to the next candidate whether or not the
\* stop event is set
ShortChunkRunsOut ==
    \A w \in Workers :
        PastFirstOfShortChunk(w) =>
            /\ wpc[w] \notin {"Cancelled", "Crashed"}
            /\ Terminal(w) => tested[w] = ChunkLength(w)
            /\ (wpc[w] = "l36" /\ HasItem(w)) => ENABLED WorkerTest(w)

\* the stop event decides a worker's step only at the head of its loop at
\* an index that is a multiple of 10000
ReadOnlyAtPollIndex ==
    \A w \in Workers :
        (wpc'[w] = "Cancelled" /\ wpc[w] # "Cancelled") =>
            /\ wpc[w] = "l36"
            /\ index[w] % stop_check_interval = 0

(***************************************************************************)
(* C18.  A worker reads the stop event only at the chunk-local indices     *)
(* that are multiples of 10000, index 0 included.  Hence a worker whose    *)
(* chunk has at most 10000 candidates and which has hashed its first       *)
(* candidate is never cancelled: it hashes its whole chunk and ends        *)
(* Completed, also when the stop event is set while it runs.               *)
(***************************************************************************)
PollIndices ==
    /\ []ShortChunkRunsOut
    /\ [][ReadOnlyAtPollIndex]_vars
    /\ <>[](\A w \in Workers : PastFirstOfShortChunk(w) => wpc[w] = "Completed")

\* the stop event is set while a worker that has hashed its first
\* candidate is at the head of its loop with candidates left
PollIndicesWitness ==
    /\ stop_event
    /\ \E w \in Workers :
          /\ PastFirstOfShortChunk(w)
          /\ wpc[w] = "l36"
          /\ HasItem(w)
          /\ ~PollDue(index[w])

====
